---- MODULE Spec2Model ----
(***************************************************************************)
(* Model of the processing cell of 01_extract_formants.ipynb (cell 4,      *)
(* source lines 92-164) together with its parameters (cell 3, lines        *)
(* 46-65): the batch loop over the directory listing, the tier loop, the   *)
(* interval loop with the vowel filter and the word lookup, and the        *)
(* segment loop that appends one row per sample.                           *)
(*                                                                         *)
(* Arithmetic.  The notebook computes times with Python floats (binary     *)
(* floating point, round to nearest, ties to even, 53 significant bits).   *)
(* The model keeps that arithmetic but with Prec significant bits: every   *)
(* value is a natural number of units of 2^-FracBits, and every operation  *)
(* (fadd, fsub, fmul, fdiv, int) rounds its exact result to Prec           *)
(* significant bits exactly as the hardware does.  Rounding, absorption    *)
(* and truncation therefore happen in the model as they do in the code,    *)
(* at a precision TLC can enumerate.                                       *)
(***************************************************************************)
EXTENDS Integers, Sequences, FiniteSets, TLC

VARIABLES
    listing,         \* os.listdir(wav_path): the directory's entries, in order
    textgrids,       \* content of every .TextGrid entry: a grid, or CorruptGrid
    unreadable,      \* entries parselmouth.Sound cannot open
    segment_window,  \* the configured segment window (cell 3)
    data,            \* the accumulator `data` (list of rows)
    file_counter,    \* the progress counter
    stdout,          \* lines printed so far
    pc,              \* position in the cell
    failure,         \* the call that raised, "none" while running
    fileIdx,         \* position of `file` in the listing (1-based, 0 before the loop)
    tierIdx,         \* tierIdx of the tier loop
    intervalIdx,     \* intervalIdx of the interval loop
    segmentIdx,      \* segmentIdx of the segment loop
    label,           \* locals of the interval body
    start,
    end,
    dur,
    word,
    numSegments,
    origin,          \* history: for every row of data, the loop indices that emitted it
    visited          \* history: the (file, tier) pairs whose interval loop was entered

vars == <<listing, textgrids, unreadable, segment_window, data, file_counter,
          stdout, pc, failure, fileIdx, tierIdx, intervalIdx, segmentIdx,
          label, start, end, dur, word, numSegments, origin, visited>>

(***************************************************************************)
(* Bounds of the model.                                                    *)
(***************************************************************************)
Prec == 4
MaxTime == 40

(***************************************************************************)
(* Floating point with Prec significant bits.                              *)
(***************************************************************************)
RECURSIVE Pow2(_)
Pow2(n) == IF n = 0 THEN 1 ELSE 2 * Pow2(n - 1)

FracBits == 2 * Prec

\* 1.0 in units of 2^-FracBits
One == Pow2(FracBits)

\* the least s >= from with num / (den * 2^s) < 2^Prec
RECURSIVE ShiftFrom(_, _, _)
ShiftFrom(num, den, from) ==
    IF num < den * Pow2(Prec) * Pow2(from) THEN from ELSE ShiftFrom(num, den, from + 1)

\* num/den (in units) rounded to Prec significant bits, ties to even
RoundRat(num, den) ==
    LET s == ShiftFrom(num, den, 0)
        d == den * Pow2(s)
        q == num \div d
        r == num % d
        up == (2 * r > d) \/ (2 * r = d /\ q % 2 = 1)
    IN  (IF up THEN q + 1 ELSE q) * Pow2(s)

Representable(v) == RoundRat(v, 1) = v

\* spacing of the representable values around v
Ulp(v) == Pow2(ShiftFrom(v, 1, 0))

fadd(a, b) == RoundRat(a + b, 1)
fsub(a, b) == RoundRat(a - b, 1)
\* int * float: the int converts exactly (k < 2^Prec in every run)
fmul(k, a) == RoundRat(k * a, 1)
\* float / float, the quotient in units of 2^-FracBits
fdiv(a, b) == RoundRat(a * One, b)
\* float / 2
fhalf(a) == RoundRat(a, 2)
\* int(x): truncation of a non-negative float
int(x) == x \div One

(***************************************************************************)
(* Strings.  File names and interval labels are sequences of characters,   *)
(* so that slicing, endswith and the regular expression act on them as in  *)
(* Python.                                                                 *)
(***************************************************************************)
Min(a, b) == IF a < b THEN a ELSE b

\* s[:n] for n >= 0
SliceTo(s, n) == SubSeq(s, 1, Min(n, Len(s)))
\* s[m:-n] for m, n >= 0
SliceBetween(s, m, n) == SubSeq(s, m + 1, Len(s) - n)

EndsWith(s, suffix) ==
    /\ Len(s) >= Len(suffix)
    /\ SubSeq(s, Len(s) - Len(suffix) + 1, Len(s)) = suffix

WavExt == <<".", "w", "a", "v">>
TextGridExt == <<".", "T", "e", "x", "t", "G", "r", "i", "d">>

\* file[:-4]
Stem(file) == SliceBetween(file, 0, 4)
\* file[:4]
Participant(file) == SliceTo(file, 4)
\* file[5:-4]
Task(file) == SliceBetween(file, 5, 4)
\* file[:-4] + '.TextGrid'   (tg_path and wav_path are the same directory)
TextGridName(file) == Stem(file) \o TextGridExt

\* phones_tiers = ['phones']
phones_tiers == {"phones"}

\* the characters of the class [a,e,i,o,u,j,w] of the regular expression:
\* inside brackets the commas are members of the class like the letters
VowelClass == {"a", ",", "e", "i", "o", "u", "j", "w"}

\* label and re.search(r'^[a,e,i,o,u,j,w]\+?', label): the pattern is anchored
\* at the start, needs one character of the class, and its \+? matches the
\* empty string as well, so nothing after the first character is constrained
VowelMatch(lab) == Len(lab) >= 1 /\ lab[1] \in VowelClass

\* word if word else 'PROBLEM'
PROBLEM == <<"P", "R", "O", "B", "L", "E", "M">>
WordField(w) == IF w # <<>> THEN w ELSE PROBLEM

(***************************************************************************)
(* The TextGrid queries (parselmouth.praat.call).                          *)
(***************************************************************************)
NumberOfTiers(tg) == Len(tg.tiers)
TierName(tg, t) == tg.tiers[t].name
NumberOfIntervals(tg, t) == Len(tg.tiers[t].intervals)
LabelOfInterval(tg, t, i) == tg.tiers[t].intervals[i].text
StartingPoint(tg, t, i) == tg.tiers[t].intervals[i].xmin
EndPoint(tg, t, i) == tg.tiers[t].intervals[i].xmax

\* 'Get interval at time': the interval with xmin <= time < xmax, at the
\* tier's very end the last interval, and 0 when the tier has no interval there
IntervalAtTime(tg, t, time) ==
    LET ivs == tg.tiers[t].intervals
        n == Len(ivs)
        hits == {i \in 1..n : ivs[i].xmin <= time /\ time < ivs[i].xmax}
    IN  IF n >= 1 /\ time = ivs[n].xmax /\ ivs[n].xmin < time THEN n
        ELSE IF hits = {} THEN 0
        ELSE CHOOSE i \in hits : \A j \in hits : i <= j

\* 'Get value at time' of the file's formant object: the value is left
\* symbolic, a function of the sound, the formant number and the time
FormantValue(file, n, time) == [sound |-> file, formant |-> n, time |-> time]

\* (end + start)/2
Midpoint(s, e) == fhalf(fadd(e, s))

\* int(dur / segment_window)
NumSegments(d, w) == int(fdiv(d, w))

\* Spot with the segments counted from 0
SpotFromZero(s, k, w) == fadd(s, fmul(k - 1, w))

\* start + (segmentIdx * segment_window)
Spot(s, k, w) == fadd(s, fmul(k, w))

\* MakeRow with the word of the row before it kept when there is one
MakeRowStaleWord(file, lab, s, spot, wd) ==
    [Video_ID |-> SliceBetween(file, 0, 4),
     Vowel |-> lab[1],
     Vowel_onset_time |-> s,
     Time_of_formant_measurements |-> spot,
     Time_from_vowel_onset |-> fsub(spot, s),
     F1 |-> FormantValue(file, 1, spot),
     F2 |-> FormantValue(file, 2, spot),
     Participant |-> SliceTo(file, 4),
     Task |-> SliceBetween(file, 5, 4),
     Word |-> IF data # <<>> THEN data[Len(data)].Word ELSE WordField(wd)]

\* the dictionary appended to data
MakeRow(file, lab, s, spot, wd) ==
    [Video_ID |-> Stem(file),
     Vowel |-> lab[1],
     Vowel_onset_time |-> s,
     Time_of_formant_measurements |-> spot,
     Time_from_vowel_onset |-> fsub(spot, s),
     F1 |-> FormantValue(file, 1, spot),
     F2 |-> FormantValue(file, 2, spot),
     Participant |-> Participant(file),
     Task |-> Task(file),
     Word |-> WordField(wd)]

\* AppendRow that inserts at the front
PrependRow(d, row) == <<row>> \o d

\* data.append(row)
AppendRow(d, row) == Append(d, row)

\* Paired without the test of the extension
PairedAnyExtension(file, entries) ==
    \E i \in 1..Len(entries) : entries[i] = SliceBetween(file, 0, 4) \o TextGridExt

\* file.endswith('.wav') and os.path.exists(tg_path + file[:-4] + '.TextGrid')
Paired(file, entries) ==
    /\ EndsWith(file, WavExt)
    /\ \E i \in 1..Len(entries) : entries[i] = TextGridName(file)

\* TierSelected without the test of the name
TierSelectedAlways(name) == TRUE

\* tierName in phones_tiers
TierSelected(name) == name \in phones_tiers

(***************************************************************************)
(* Inputs: the directory, the TextGrids and the segment window.            *)
(***************************************************************************)
\* times of interval boundaries: whole ticks of 1.0 that are representable
Times == {t * One : t \in {u \in 0..MaxTime : Representable(u * One)}}

\* segment windows tried (the notebook sets segment_window = 0.005)
Windows == {3 * One, 7 * One, 9 * One, 13 * One}

Iv(text, xmin, xmax) == [text |-> text, xmin |-> xmin, xmax |-> xmax]
Tier(name, intervals) == [name |-> name, intervals |-> intervals]
Grid(tiers) == [ok |-> TRUE, tiers |-> tiers]
\* a TextGrid file parselmouth.Data.read cannot parse
CorruptGrid == [ok |-> FALSE, tiers |-> <<>>]

\* an interval tier from 0 to e whose last interval [s, e] carries text
Leading(s, e, text) ==
    (IF s > 0 THEN <<Iv(<<>>, 0, s)>> ELSE <<>>) \o <<Iv(text, s, e)>>

F_int_wav == <<"p", "1", "1", "3", "_", "i", "n", "t", ".", "w", "a", "v">>
F_wd_wav == <<"p", "1", "1", "3", "_", "w", "d", ".", "w", "a", "v">>
F_lone_wav == <<"p", "1", "1", "5", "_", "w", "d", ".", "w", "a", "v">>
F_notes_txt == <<"n", "o", "t", "e", "s", ".", "t", "x", "t">>
F_int_tg == TextGridName(F_int_wav)
F_wd_tg == TextGridName(F_wd_wav)
F_notes_tg == TextGridName(F_notes_txt)

W_no == <<"n", "o">>
W_si == <<"s", "i">>

Labels ==
    {<<>>, <<"o">>, <<"o", "+">>, <<"e", "1", "2">>, <<"p">>, <<"j">>, <<"w", "a">>,
     <<"A">>, <<"+", "a">>, <<",">>, <<"s", "p">>, <<"u", "+", "+">>}

Scenario(entries, tgs, bad) == [listing |-> entries, textgrids |-> tgs, unreadable |-> bad]

OneFile(grid) ==
    Scenario(<<F_int_wav, F_int_tg>>, (F_int_tg :> grid), {})

\* one vowel "o" from s to e under a word "no" that covers the whole tier
TimingScenarios ==
    {OneFile(Grid(<<Tier("words", <<Iv(W_no, 0, e)>>),
                    Tier("phones", Leading(s, e, <<"o">>))>>)) :
        <<s, e>> \in {p \in Times \X Times : p[1] < p[2]}}

\* two phone intervals with any two labels
LabelScenarios ==
    {OneFile(Grid(<<Tier("words", <<Iv(W_no, 0, 12 * One), Iv(W_si, 12 * One, 30 * One)>>),
                    Tier("phones", <<Iv(l[1], 0, 12 * One), Iv(l[2], 12 * One, 30 * One)>>)>>)) :
        l \in Labels \X Labels}

\* word tiers: covering with a label, covering with an empty label, a boundary
\* at the vowel's midpoint, ending before or at the midpoint, starting after it
WordTiers ==
    {<<Iv(W_no, 0, 30 * One)>>,
     <<Iv(<<>>, 0, 30 * One)>>,
     <<Iv(W_no, 0, 20 * One), Iv(W_si, 20 * One, 30 * One)>>,
     <<Iv(W_no, 0, 20 * One), Iv(<<>>, 20 * One, 30 * One)>>,
     <<Iv(W_no, 0, 12 * One)>>,
     <<Iv(W_no, 0, 20 * One)>>,
     <<Iv(W_no, 24 * One, 30 * One)>>,
     <<>>}

WordScenarios ==
    {OneFile(Grid(<<Tier("words", wt),
                    Tier("phones", <<Iv(<<"p">>, 0, 10 * One), Iv(<<"a">>, 10 * One, 30 * One)>>)>>)) :
        wt \in WordTiers}

PhoneIvs == <<Iv(<<"e">>, 0, 8 * One), Iv(<<"s">>, 8 * One, 14 * One), Iv(<<"o", "+">>, 14 * One, 30 * One)>>
OtherIvs == <<Iv(<<"i">>, 0, 16 * One), Iv(<<"u">>, 16 * One, 30 * One)>>
WordIvs == <<Iv(W_no, 0, 14 * One), Iv(W_si, 14 * One, 30 * One)>>

\* tier layouts: names that match, do not match, match twice, no tier at all
TierLayouts ==
    {<<Tier("words", WordIvs), Tier("phones", PhoneIvs)>>,
     <<Tier("phones", PhoneIvs)>>,
     <<Tier("phones", PhoneIvs), Tier("words", WordIvs)>>,
     <<Tier("words", WordIvs), Tier("phones", PhoneIvs), Tier("phones", OtherIvs)>>,
     <<Tier("words", WordIvs), Tier("phones", PhoneIvs), Tier("notes", OtherIvs), Tier("phones", OtherIvs)>>,
     <<Tier("words", WordIvs), Tier("Phones", PhoneIvs)>>,
     <<Tier("words", WordIvs), Tier("phone", PhoneIvs), Tier("phoness", OtherIvs)>>,
     <<Tier("words", WordIvs)>>,
     <<>>}

TierScenarios == {OneFile(Grid(layout)) : layout \in TierLayouts}

\* the grids of the batch scenarios
BatchGrids ==
    {Grid(<<Tier("words", WordIvs), Tier("phones", PhoneIvs)>>),
     Grid(<<Tier("words", WordIvs), Tier("phones", OtherIvs)>>),
     Grid(<<Tier("words", WordIvs), Tier("tones", OtherIvs)>>),
     CorruptGrid}

\* directory listings (os.listdir returns the entries in arbitrary order)
BatchListings ==
    {<<F_int_wav, F_wd_wav, F_lone_wav, F_notes_txt, F_int_tg, F_wd_tg, F_notes_tg>>,
     <<F_notes_tg, F_wd_tg, F_wd_wav, F_notes_txt, F_int_tg, F_lone_wav, F_int_wav>>,
     <<F_int_tg, F_int_wav, F_wd_tg, F_wd_wav>>,
     <<F_wd_wav, F_int_wav, F_int_tg, F_wd_tg>>}

\* the TextGrid entries of a listing with their contents
TextGridsOf(l, g1, g2) ==
    [n \in {l[i] : i \in {j \in 1..Len(l) : EndsWith(l[j], TextGridExt)}} |->
        IF n = F_wd_tg THEN g2 ELSE g1]

BatchScenarios ==
    {Scenario(l, TextGridsOf(l, g1, g2), bad) :
        <<l, g1, g2, bad>> \in BatchListings \X BatchGrids \X BatchGrids
                                 \X SUBSET {F_int_wav, F_wd_wav}}

\* directories without any paired audio file
UnpairedScenarios ==
    {Scenario(l, TextGridsOf(l, Grid(<<Tier("phones", PhoneIvs)>>), CorruptGrid), {}) :
        l \in {<<>>, <<F_lone_wav>>, <<F_notes_txt, F_notes_tg>>,
               <<F_lone_wav, F_notes_tg, F_notes_txt, WavExt>>}}

Scenarios ==
    TimingScenarios \cup LabelScenarios \cup WordScenarios \cup TierScenarios
        \cup BatchScenarios \cup UnpairedScenarios

NoLabel == <<>>

Init ==
    /\ \E sc \in Scenarios :
          /\ listing = sc.listing
          /\ textgrids = sc.textgrids
          /\ unreadable = sc.unreadable
    /\ segment_window \in Windows
    /\ data = <<>>
    /\ file_counter = 1
    /\ stdout = <<>>
    /\ pc = "files"
    /\ failure = "none"
    /\ fileIdx = 0
    /\ tierIdx = 0
    /\ intervalIdx = 0
    /\ segmentIdx = 0
    /\ label = NoLabel
    /\ start = 0
    /\ end = 0
    /\ dur = 0
    /\ word = NoLabel
    /\ numSegments = 0
    /\ origin = <<>>
    /\ visited = <<>>

(***************************************************************************)
(* The cell, one action per loop step.                                     *)
(***************************************************************************)
file == listing[fileIdx]
tg == textgrids[TextGridName(file)]

Environment == <<listing, textgrids, unreadable, segment_window>>
TokenLocals == <<label, start, end, dur, word, numSegments>>

\* the line printed for a paired file
ProgressLine(n, f) == <<n, "Processing file", f>>

\* for file in os.listdir(wav_path): an entry that is not a .wav file, or has
\* no TextGrid beside it, is passed over
SkipFile ==
    /\ pc = "files"
    /\ fileIdx < Len(listing)
    /\ ~Paired(listing[fileIdx + 1], listing)
    /\ fileIdx' = fileIdx + 1
    /\ UNCHANGED <<Environment, data, file_counter, stdout, pc, failure, tierIdx,
                   intervalIdx, segmentIdx, TokenLocals, origin, visited>>

\* a paired file: the progress line, then the sound, the formant object and
\* the TextGrid are opened and the tier loop starts
OpenFile ==
    /\ pc = "files"
    /\ fileIdx < Len(listing)
    /\ LET f == listing[fileIdx + 1] IN
          /\ Paired(f, listing)
          /\ f \notin unreadable
          /\ textgrids[TextGridName(f)].ok
          /\ stdout' = Append(stdout, ProgressLine(file_counter, f))
    /\ file_counter' = file_counter + 1
    /\ fileIdx' = fileIdx + 1
    /\ tierIdx' = 0
    /\ pc' = "tiers"
    /\ UNCHANGED <<Environment, data, failure, intervalIdx, segmentIdx, TokenLocals, origin, visited>>

\* a paired file whose sound or TextGrid cannot be read: the call raises, and
\* nothing in the cell catches it
OpenFileRaises ==
    /\ pc = "files"
    /\ fileIdx < Len(listing)
    /\ LET f == listing[fileIdx + 1] IN
          /\ Paired(f, listing)
          /\ f \in unreadable \/ ~textgrids[TextGridName(f)].ok
          /\ stdout' = Append(stdout, ProgressLine(file_counter, f))
          /\ failure' = IF f \in unreadable THEN "parselmouth.Sound" ELSE "parselmouth.Data.read"
    /\ file_counter' = file_counter + 1
    /\ fileIdx' = fileIdx + 1
    /\ pc' = "raised"
    /\ UNCHANGED <<Environment, data, tierIdx, intervalIdx, segmentIdx, TokenLocals, origin, visited>>

\* for tierIdx in range(1, numTiers + 1): a tier whose name is not in phones_tiers
SkipTier ==
    /\ pc = "tiers"
    /\ tierIdx < NumberOfTiers(tg)
    /\ ~TierSelected(TierName(tg, tierIdx + 1))
    /\ tierIdx' = tierIdx + 1
    /\ UNCHANGED <<Environment, data, file_counter, stdout, pc, failure, fileIdx,
                   intervalIdx, segmentIdx, TokenLocals, origin, visited>>

\* a tier whose name is in phones_tiers: the interval loop starts
EnterTier ==
    /\ pc = "tiers"
    /\ tierIdx < NumberOfTiers(tg)
    /\ TierSelected(TierName(tg, tierIdx + 1))
    /\ tierIdx' = tierIdx + 1
    /\ intervalIdx' = 0
    /\ pc' = "intervals"
    /\ visited' = Append(visited, <<fileIdx, tierIdx + 1>>)
    /\ UNCHANGED <<Environment, data, file_counter, stdout, failure, fileIdx,
                   segmentIdx, TokenLocals, origin>>

\* the tier loop is exhausted: back to the file loop
EndTiers ==
    /\ pc = "tiers"
    /\ tierIdx = NumberOfTiers(tg)
    /\ pc' = "files"
    /\ UNCHANGED <<Environment, data, file_counter, stdout, failure, fileIdx, tierIdx,
                   intervalIdx, segmentIdx, TokenLocals, origin, visited>>

\* for intervalIdx in range(1, numIntervals + 1): a label the vowel test rejects
SkipInterval ==
    /\ pc = "intervals"
    /\ intervalIdx < NumberOfIntervals(tg, tierIdx)
    /\ LET lab == LabelOfInterval(tg, tierIdx, intervalIdx + 1) IN
          /\ ~VowelMatch(lab)
          /\ label' = lab
    /\ intervalIdx' = intervalIdx + 1
    /\ UNCHANGED <<Environment, data, file_counter, stdout, pc, failure, fileIdx,
                   tierIdx, segmentIdx, start, end, dur, word, numSegments, origin, visited>>

\* a label the vowel test accepts: start, end, dur, the word at the midpoint
\* on tier 1 and numSegments are computed and the segment loop starts
BeginToken ==
    /\ pc = "intervals"
    /\ intervalIdx < NumberOfIntervals(tg, tierIdx)
    /\ LET lab == LabelOfInterval(tg, tierIdx, intervalIdx + 1)
           s == StartingPoint(tg, tierIdx, intervalIdx + 1)
           e == EndPoint(tg, tierIdx, intervalIdx + 1)
           d == fsub(e, s)
           word_interval == IntervalAtTime(tg, 1, Midpoint(s, e))
       IN /\ VowelMatch(lab)
          /\ word_interval # 0
          /\ label' = lab
          /\ start' = s
          /\ end' = e
          /\ dur' = d
          /\ word' = LabelOfInterval(tg, 1, word_interval)
          /\ numSegments' = NumSegments(d, segment_window)
    /\ intervalIdx' = intervalIdx + 1
    /\ segmentIdx' = 0
    /\ pc' = "segments"
    /\ UNCHANGED <<Environment, data, file_counter, stdout, failure, fileIdx, tierIdx, origin, visited>>

\* a label the vowel test accepts when tier 1 has no interval at the midpoint:
\* 'Get interval at time' gives 0 and 'Get label of interval' raises on it
WordLookupRaises ==
    /\ pc = "intervals"
    /\ intervalIdx < NumberOfIntervals(tg, tierIdx)
    /\ LET lab == LabelOfInterval(tg, tierIdx, intervalIdx + 1)
           s == StartingPoint(tg, tierIdx, intervalIdx + 1)
           e == EndPoint(tg, tierIdx, intervalIdx + 1)
       IN /\ VowelMatch(lab)
          /\ IntervalAtTime(tg, 1, Midpoint(s, e)) = 0
          /\ label' = lab
          /\ start' = s
          /\ end' = e
          /\ dur' = fsub(e, s)
    /\ intervalIdx' = intervalIdx + 1
    /\ failure' = "Get label of interval"
    /\ pc' = "raised"
    /\ UNCHANGED <<Environment, data, file_counter, stdout, fileIdx, tierIdx,
                   segmentIdx, word, numSegments, origin, visited>>

\* the interval loop is exhausted: back to the tier loop
EndIntervals ==
    /\ pc = "intervals"
    /\ intervalIdx = NumberOfIntervals(tg, tierIdx)
    /\ pc' = "tiers"
    /\ UNCHANGED <<Environment, data, file_counter, stdout, failure, fileIdx, tierIdx,
                   intervalIdx, segmentIdx, TokenLocals, origin, visited>>

\* for segmentIdx in range(1, numSegments + 1): one row is appended
EmitRow ==
    /\ pc = "segments"
    /\ segmentIdx < numSegments
    /\ segmentIdx' = segmentIdx + 1
    /\ data' = AppendRow(data, MakeRow(file, label, start,
                                       Spot(start, segmentIdx + 1, segment_window), word))
    /\ origin' = Append(origin, [file |-> fileIdx, tier |-> tierIdx,
                                 interval |-> intervalIdx, segment |-> segmentIdx + 1])
    /\ UNCHANGED <<Environment, file_counter, stdout, pc, failure, fileIdx, tierIdx,
                   intervalIdx, TokenLocals, visited>>

\* the segment loop is exhausted: back to the interval loop
EndSegments ==
    /\ pc = "segments"
    /\ segmentIdx = numSegments
    /\ pc' = "intervals"
    /\ UNCHANGED <<Environment, data, file_counter, stdout, failure, fileIdx, tierIdx,
                   intervalIdx, segmentIdx, TokenLocals, origin, visited>>

\* the file loop is exhausted: print('Done')
Finish ==
    /\ pc = "files"
    /\ fileIdx = Len(listing)
    /\ stdout' = Append(stdout, <<"Done">>)
    /\ pc' = "done"
    /\ UNCHANGED <<Environment, data, file_counter, failure, fileIdx, tierIdx,
                   intervalIdx, segmentIdx, TokenLocals, origin, visited>>

Next ==
    \/ SkipFile
    \/ OpenFile
    \/ OpenFileRaises
    \/ SkipTier
    \/ EnterTier
    \/ EndTiers
    \/ SkipInterval
    \/ BeginToken
    \/ WordLookupRaises
    \/ EndIntervals
    \/ EmitRow
    \/ EndSegments
    \/ Finish

Spec == Init /\ [][Next]_vars

(***************************************************************************)
(* Vocabulary of the properties.                                           *)
(***************************************************************************)
\* positions in data of the rows emitted by the token being sampled
TokenRowIdx ==
    {i \in 1..Len(origin) : /\ origin[i].file = fileIdx
                            /\ origin[i].tier = tierIdx
                            /\ origin[i].interval = intervalIdx}

\* the segment loop of the current token has emitted all its rows
TokenDone == pc = "segments" /\ segmentIdx = numSegments

Abs(x) == IF x < 0 THEN -x ELSE x

\* the vowel letters and glides the comment of the vowel test names
NamedVowels == {"a", "e", "i", "o", "u", "j", "w"}
StartsWithNamedVowel(lab) == Len(lab) >= 1 /\ lab[1] \in NamedVowels

(***************************************************************************)
(* C1.  A token is produced for a label if and only if the label is        *)
(* non-empty and its first character is one of a, e, i, o, u, j, w; the    *)
(* Vowel of every row is the first character of its label.  As stated the  *)
(* property fails: the character class of the pattern also holds the       *)
(* comma, so a label that starts with "," is taken for a vowel.            *)
(***************************************************************************)
C1_TokenIffNamedVowel ==
    [][/\ SkipInterval => ~StartsWithNamedVowel(label')
       /\ (BeginToken \/ WordLookupRaises) => StartsWithNamedVowel(label')
       /\ EmitRow => /\ data'[Len(data')].Vowel = label[1]
                     /\ data'[Len(data')].Vowel \in NamedVowels]_vars

(***************************************************************************)
(* C2.  The number of rows emitted for a token is floor(d / w) with        *)
(* d = end - start, and a duration of exactly n * w yields n rows.  As     *)
(* stated the property fails: the quotient is a rounded floating-point     *)
(* quotient, so int(d / w) can be one more than floor(d / w), and for      *)
(* d = n * w it can be n - 1.                                              *)
(***************************************************************************)
C2_RowsAreFloorOfQuotient ==
    TokenDone =>
        /\ Cardinality(TokenRowIdx) = dur \div segment_window
        /\ \A n \in 0..(Pow2(Prec) - 1) :
              dur = fmul(n, segment_window) => Cardinality(TokenRowIdx) = n

(***************************************************************************)
(* C4.  The Word of a token's rows is the label of the interval of tier 1  *)
(* that contains the midpoint, or "PROBLEM" when no interval covers the    *)
(* midpoint or its label is empty, and the lookup never halts the run.  As *)
(* stated the property fails: with no interval at the midpoint the label   *)
(* query is made for interval 0 and raises.                                *)
(***************************************************************************)
ExpectedWord(grid, s, e) ==
    LET i == IntervalAtTime(grid, 1, Midpoint(s, e))
    IN  IF i = 0 THEN PROBLEM
        ELSE IF LabelOfInterval(grid, 1, i) = <<>> THEN PROBLEM
        ELSE LabelOfInterval(grid, 1, i)

C4_WordOrProblemNeverHalts ==
    /\ failure # "Get label of interval"
    /\ pc = "segments" =>
          \A i \in TokenRowIdx : data[i].Word = ExpectedWord(tg, start, end)

(***************************************************************************)
(* C5.  A fatal condition while a paired file is opened (unreadable audio, *)
(* corrupt TextGrid) aborts that file only and the batch goes on to the    *)
(* completion signal.  As stated the property fails: the exception is not  *)
(* caught and ends the run.                                                *)
(***************************************************************************)
C5_FatalFileDoesNotStopBatch ==
    failure \in {"parselmouth.Sound", "parselmouth.Data.read"} => pc # "raised"

(***************************************************************************)
(* C10.  Every sample time of a token lies in (start, end], and the last   *)
(* one equals end exactly when the duration is a multiple of the window.   *)
(* As stated the property fails: start + k * window is rounded and can     *)
(* exceed end.                                                             *)
(***************************************************************************)
C10_SamplesInsideToken ==
    pc = "segments" =>
        /\ \A i \in TokenRowIdx :
              /\ start < data[i].Time_of_formant_measurements
              /\ data[i].Time_of_formant_measurements <= end
        /\ (TokenDone /\ numSegments >= 1) =>
              ((\E i \in TokenRowIdx : /\ origin[i].segment = numSegments
                                       /\ data[i].Time_of_formant_measurements = end)
                  <=> dur % segment_window = 0)

(***************************************************************************)
(* C3.  The k-th row of a token (k = 1..numSegments) has sample time       *)
(* start + k * window and offset k * window; the sample times increase     *)
(* strictly, the first is start + window and none equals start.  As stated *)
(* (in exact arithmetic) the property fails: both fields are rounded.      *)
(***************************************************************************)
C3_ExactTimesAndOffsets ==
    pc = "segments" =>
        \A i \in TokenRowIdx :
            LET k == origin[i].segment IN
            /\ data[i].Time_of_formant_measurements = start + k * segment_window
            /\ data[i].Time_from_vowel_onset = k * segment_window
            /\ data[i].Time_of_formant_measurements # start
            /\ \A j \in TokenRowIdx :
                  j < i => data[j].Time_of_formant_measurements
                              < data[i].Time_of_formant_measurements

(***************************************************************************)
(* C3 as amended.  The k-th row of a token is the row of segment k; its    *)
(* sample time is the floating-point sum start + k * window, its offset    *)
(* the floating-point difference of sample time and start, which is within *)
(* one and a half units in the last place of the sample time of            *)
(* k * window; the first sample time is the floating-point sum             *)
(* start + window; sample times never decrease, and they increase strictly *)
(* and differ from start whenever the window is at least four units in the *)
(* last place of the token's end.                                          *)
(***************************************************************************)
C3_RoundedTimesAndOffsets ==
    pc = "segments" =>
        /\ Cardinality(TokenRowIdx) = segmentIdx
        /\ \A i \in TokenRowIdx :
            LET k == origin[i].segment
                time == data[i].Time_of_formant_measurements
                offset == data[i].Time_from_vowel_onset
                earlier == {j \in TokenRowIdx : j < i}
            IN
            /\ k = Cardinality(earlier) + 1
            /\ time = fadd(start, fmul(k, segment_window))
            /\ offset = fsub(time, start)
            /\ 2 * Abs(offset - k * segment_window) <= 3 * Ulp(time)
            /\ k = 1 => time = fadd(start, segment_window)
            /\ time >= start
            /\ \A j \in earlier : data[j].Time_of_formant_measurements <= time
            /\ segment_window >= 4 * Ulp(end) =>
                  /\ time > start
                  /\ \A j \in earlier : data[j].Time_of_formant_measurements < time

\* a token under a window of at least four units in the last place of its end
\* has two rows, the second with an offset that differs from 2 * window
C3_Witness ==
    /\ pc = "segments"
    /\ segmentIdx >= 2
    /\ segment_window >= 4 * Ulp(end)
    /\ \E i \in TokenRowIdx :
          /\ origin[i].segment = 2
          /\ data[i].Time_from_vowel_onset # 2 * segment_window

(***************************************************************************)
(* Vocabulary of the batch properties.                                     *)
(***************************************************************************)
Entries == {listing[i] : i \in 1..Len(listing)}

\* an entry with the audio extension whose same-stem TextGrid is in the directory
IsPairedAudio(f) ==
    /\ Len(f) >= 4
    /\ SubSeq(f, Len(f) - 3, Len(f)) = <<".", "w", "a", "v">>
    /\ (SubSeq(f, 1, Len(f) - 4) \o <<".", "T", "e", "x", "t", "G", "r", "i", "d">>) \in Entries

GridOf(f) == textgrids[SubSeq(f, 1, Len(f) - 4) \o <<".", "T", "e", "x", "t", "G", "r", "i", "d">>]

\* the file at position j of the listing has been processed to its end
Completed(j) == j < fileIdx \/ (j = fileIdx /\ pc \in {"files", "done"})

(***************************************************************************)
(* C6.  Only an entry with the audio extension and a same-stem TextGrid    *)
(* contributes rows: every row's Video ID is the stem of such an entry;    *)
(* every other entry is passed over without a row and without an error;    *)
(* and a directory with no paired audio file leaves data empty, raises     *)
(* nothing and runs on to the completion signal.                           *)
(***************************************************************************)
C6_OnlyPairedAudioContributes ==
    /\ Len(origin) = Len(data)
    /\ \A i \in 1..Len(data) :
          LET f == listing[origin[i].file] IN
          /\ IsPairedAudio(f)
          /\ data[i].Video_ID = SubSeq(f, 1, Len(f) - 4)
    /\ (fileIdx >= 1 /\ ~IsPairedAudio(listing[fileIdx])) =>
          /\ pc \in {"files", "done"}
          /\ \A i \in 1..Len(origin) : origin[i].file # fileIdx
    /\ (\A f \in Entries : ~IsPairedAudio(f)) =>
          /\ data = <<>>
          /\ failure = "none"
          /\ stdout \in {<<>>, << <<"Done">> >>}
          /\ pc = "done" \/ ENABLED Next
          /\ pc = "done" => stdout = << <<"Done">> >>

\* a finished run with rows that passed over an audio file without TextGrid
\* and a TextGrid whose same-stem entry is not an audio file
C6_Witness ==
    /\ pc = "done"
    /\ data # <<>>
    /\ \E f \in Entries : EndsWith(f, WavExt) /\ ~IsPairedAudio(f)
    /\ \E f \in Entries : ~EndsWith(f, WavExt) /\ (Stem(f) \o TextGridExt) \in Entries

(***************************************************************************)
(* C7.  Rows come only from tiers whose name is in phones_tiers; the tiers *)
(* with such a name are entered in the grid's order, every one of them,    *)
(* duplicates included; a file whose grid has no such tier contributes no  *)
(* row, raises nothing and the batch goes on.                              *)
(***************************************************************************)
RECURSIVE VisitedOf(_, _)
VisitedOf(j, n) ==
    IF n = 0 THEN <<>>
    ELSE IF visited[n][1] = j THEN Append(VisitedOf(j, n - 1), visited[n][2])
    ELSE VisitedOf(j, n - 1)

RECURSIVE NamedTiersUpTo(_, _)
NamedTiersUpTo(grid, t) ==
    IF t = 0 THEN <<>>
    ELSE IF grid.tiers[t].name \in phones_tiers THEN Append(NamedTiersUpTo(grid, t - 1), t)
    ELSE NamedTiersUpTo(grid, t - 1)

C7_OnlyNamedTiersInOrder ==
    /\ \A i \in 1..Len(origin) :
          GridOf(listing[origin[i].file]).tiers[origin[i].tier].name \in phones_tiers
    /\ pc \in {"intervals", "segments"} => tg.tiers[tierIdx].name \in phones_tiers
    /\ pc \in {"tiers", "intervals", "segments"} =>
          /\ VisitedOf(fileIdx, Len(visited)) = NamedTiersUpTo(tg, tierIdx)
          /\ NamedTiersUpTo(tg, Len(tg.tiers)) = <<>> =>
                /\ pc = "tiers"
                /\ failure = "none"
                /\ \A i \in 1..Len(origin) : origin[i].file # fileIdx
    /\ \A j \in 1..Len(listing) :
          (Completed(j) /\ IsPairedAudio(listing[j])) =>
              /\ VisitedOf(j, Len(visited))
                    = NamedTiersUpTo(GridOf(listing[j]), Len(GridOf(listing[j]).tiers))
              /\ NamedTiersUpTo(GridOf(listing[j]), Len(GridOf(listing[j]).tiers)) = <<>> =>
                    \A i \in 1..Len(origin) : origin[i].file # j

\* a finished run with rows from two tiers of the name in one file, a tier
\* of another name between them
C7_Witness ==
    /\ pc = "done"
    /\ \E i, j \in 1..Len(origin) :
          /\ origin[i].file = origin[j].file
          /\ origin[j].tier > origin[i].tier + 1

(***************************************************************************)
(* C8.  The rows of data are in the order of the nested traversal: by      *)
(* position of the file in the listing, then by tier and interval, then by *)
(* segment; so the rows of a file, and of a token, are contiguous; and a   *)
(* step only ever appends: the rows already in data stay as they are.      *)
(***************************************************************************)
OriginBefore(a, b) ==
    \/ a.file < b.file
    \/ a.file = b.file /\ a.tier < b.tier
    \/ a.file = b.file /\ a.tier = b.tier /\ a.interval < b.interval
    \/ a.file = b.file /\ a.tier = b.tier /\ a.interval = b.interval
          /\ a.segment < b.segment

\* row i is the row of the file, interval and segment its origin names
RowIsOfOrigin(i) ==
    LET o == origin[i]
        f == listing[o.file]
        iv == GridOf(f).tiers[o.tier].intervals[o.interval]
    IN  /\ data[i].Video_ID = SubSeq(f, 1, Len(f) - 4)
        /\ data[i].Vowel = iv.text[1]
        /\ data[i].Vowel_onset_time = iv.xmin
        /\ data[i].Time_of_formant_measurements
              = fadd(iv.xmin, fmul(o.segment, segment_window))

TraversalOrder ==
    /\ Len(origin) = Len(data)
    /\ \A i \in 1..Len(data) : RowIsOfOrigin(i)
    /\ \A i, j \in 1..Len(data) : i < j => OriginBefore(origin[i], origin[j])

AppendOnly ==
    /\ Len(data') >= Len(data)
    /\ Len(data') <= Len(data) + 1
    /\ SubSeq(data', 1, Len(data)) = data

C8_InsertionOrder == []TraversalOrder /\ [][AppendOnly]_vars

\* a finished run whose data holds rows of two files, and of two tokens of
\* one file with two rows each
C8_Witness ==
    /\ pc = "done"
    /\ \E i, j \in 1..Len(origin) : origin[i].file # origin[j].file
    /\ \E i, j \in 1..Len(origin) :
          /\ origin[i].file = origin[j].file
          /\ origin[i].interval # origin[j].interval
          /\ origin[i].segment = 2
          /\ origin[j].segment = 2

(***************************************************************************)
(* C9.  The rows a paired file contributes are a function of that file's   *)
(* name, grid and acoustic values (and the window) alone, whatever was     *)
(* processed before it; data after the run is the concatenation, in the    *)
(* order of the listing, of the rows of each file computed on its own.     *)
(***************************************************************************)
ExpectedRow(f, g, t, i, k, w) ==
    LET iv == g.tiers[t].intervals[i]
        spot == fadd(iv.xmin, fmul(k, w))
    IN  [Video_ID |-> SubSeq(f, 1, Len(f) - 4),
         Vowel |-> iv.text[1],
         Vowel_onset_time |-> iv.xmin,
         Time_of_formant_measurements |-> spot,
         Time_from_vowel_onset |-> fsub(spot, iv.xmin),
         F1 |-> [sound |-> f, formant |-> 1, time |-> spot],
         F2 |-> [sound |-> f, formant |-> 2, time |-> spot],
         Participant |-> SubSeq(f, 1, Min(4, Len(f))),
         Task |-> SubSeq(f, 6, Len(f) - 4),
         Word |-> ExpectedWord(g, iv.xmin, iv.xmax)]

\* rows 1..k of the token at interval i of tier t
RECURSIVE RowsOfToken(_, _, _, _, _, _)
RowsOfToken(f, g, t, i, k, w) ==
    IF k = 0 THEN <<>>
    ELSE Append(RowsOfToken(f, g, t, i, k - 1, w), ExpectedRow(f, g, t, i, k, w))

\* rows of intervals 1..i of tier t
RECURSIVE RowsOfIntervals(_, _, _, _, _)
RowsOfIntervals(f, g, t, i, w) ==
    IF i = 0 THEN <<>>
    ELSE LET iv == g.tiers[t].intervals[i]
             n == int(fdiv(fsub(iv.xmax, iv.xmin), w))
         IN  RowsOfIntervals(f, g, t, i - 1, w)
                \o (IF Len(iv.text) >= 1 /\ iv.text[1] \in VowelClass
                    THEN RowsOfToken(f, g, t, i, n, w) ELSE <<>>)

\* rows of tiers 1..t
RECURSIVE RowsOfTiers(_, _, _, _)
RowsOfTiers(f, g, t, w) ==
    IF t = 0 THEN <<>>
    ELSE RowsOfTiers(f, g, t - 1, w)
            \o (IF g.tiers[t].name \in phones_tiers
                THEN RowsOfIntervals(f, g, t, Len(g.tiers[t].intervals), w) ELSE <<>>)

\* the rows of one file, computed from the file alone
FileRows(f, g, w) == RowsOfTiers(f, g, Len(g.tiers), w)

\* the rows of listing entries 1..j, each computed on its own, concatenated
RECURSIVE RowsOfListing(_)
RowsOfListing(j) ==
    IF j = 0 THEN <<>>
    ELSE RowsOfListing(j - 1)
            \o (IF IsPairedAudio(listing[j])
                THEN FileRows(listing[j], GridOf(listing[j]), segment_window) ELSE <<>>)

\* the rows of data whose origin is the file at position j, among the first n
RECURSIVE DataOfFile(_, _)
DataOfFile(j, n) ==
    IF n = 0 THEN <<>>
    ELSE IF origin[n].file = j THEN Append(DataOfFile(j, n - 1), data[n])
    ELSE DataOfFile(j, n - 1)

====
